---- MODULE Spec2Model ----
(***************************************************************************)
(* A model of the DSA backend (src/rust/src/backend/dsa.rs): the three     *)
(* frozen classes DsaParameters, DsaPrivateKey and DsaPublicKey, the four  *)
(* module functions that construct them, and their methods.                *)
(*                                                                         *)
(* The state is the set of objects the caller holds (heap) and the         *)
(* outcome of the last call (ret).  The primitives behind the boundary     *)
(* (big-integer conversion, digest computation, the DSA arithmetic of the  *)
(* primitive library and its signature encoding) are computed, on groups   *)
(* small enough to enumerate.                                              *)
(***************************************************************************)
EXTENDS Integers, Sequences, FiniteSets, TLC

VARIABLES heap, origin, ret

vars == <<heap, origin, ret>>

\* The number of objects a caller holds at once.
MaxObjs == 3

(***************************************************************************)
(* Results.  A call ends in Ok(v), in a typed error Err(kind) returned to  *)
(* the caller, or in a panic (an unwrap() of an Err).                      *)
(***************************************************************************)
Ok(v) == [tag |-> "Ok", val |-> v]

Err(kind) == [tag |-> "Err", err |-> kind]

Panic == [tag |-> "Panic"]

IsOk(r) == r.tag = "Ok"

(***************************************************************************)
(* NumericBridge: utils::py_int_to_bn and utils::bn_to_py_int.  An integer *)
(* of the caller crosses the boundary as big-endian bytes.                 *)
(***************************************************************************)
RECURSIVE bit_length(_)
bit_length(v) == IF v = 0 THEN 0 ELSE 1 + bit_length(v \div 2)

RECURSIVE to_bytes(_, _)
to_bytes(v, n) == IF n = 0 THEN <<>> ELSE Append(to_bytes(v \div 256, n - 1), v % 256)

RECURSIVE from_slice(_)
from_slice(bytes) ==
    IF bytes = <<>> THEN 0
    ELSE 256 * from_slice(SubSeq(bytes, 1, Len(bytes) - 1)) + bytes[Len(bytes)]

\* BigNum::to_vec: the minimal big-endian bytes, none for zero.
to_vec(bn) == to_bytes(bn, (bit_length(bn) + 7) \div 8)

py_int_to_bn(v) ==
    IF v < 0 THEN Err("InvalidNumeric")
    ELSE Ok(from_slice(to_bytes(v, bit_length(v) \div 8 + 1)))

bn_to_py_int(bn) == from_slice(to_vec(bn))

(***************************************************************************)
(* The primitive library's arithmetic.                                     *)
(***************************************************************************)
RECURSIVE PowMod(_, _, _)
PowMod(b, e, m) == IF e = 0 THEN 1 % m ELSE (b * PowMod(b, e - 1, m)) % m

IsPrime(n) == n > 1 /\ \A d \in 2..(n - 1) : n % d # 0

\* The inverse modulo a prime q.
InvMod(a, q) == PowMod(a % q, q - 2, q)

num_bits(bn) == bit_length(bn)

\* Domain parameters: q divides p - 1 and g has order q modulo p.
ValidPQG(p, q, g) ==
    /\ IsPrime(p)
    /\ IsPrime(q)
    /\ (p - 1) % q = 0
    /\ 1 < g
    /\ g < p
    /\ PowMod(g, q, p) = 1

\* Dsa::from_pqg: the validation the core delegates to the primitive library.
Dsa_from_pqg(p, q, g) ==
    IF ValidPQG(p, q, g) THEN Ok([p |-> p, q |-> q, g |-> g])
    ELSE Err("InvalidParameters")

Dsa_from_public_components(p, q, g, pub_key) ==
    IF ValidPQG(p, q, g) /\ 0 < pub_key /\ pub_key < p
    THEN Ok([p |-> p, q |-> q, g |-> g, pub_key |-> pub_key])
    ELSE Err("InvalidParameters")

Dsa_from_private_components(p, q, g, priv_key, pub_key) ==
    IF ValidPQG(p, q, g) /\ 0 < priv_key /\ priv_key < q /\ pub_key = PowMod(g, priv_key, p)
    THEN Ok([p |-> p, q |-> q, g |-> g, pub_key |-> pub_key, priv_key |-> priv_key])
    ELSE Err("InvalidParameters")

\* The groups the primitive library's randomized generation can produce.
GenGroups == {[p |-> 7, q |-> 3, g |-> 2], [p |-> 271, q |-> 3, g |-> 28]}

\* Dsa::generate_params: some group whose modulus has the requested bit length.
Dsa_generate_params(key_size) ==
    IF \E grp \in GenGroups : num_bits(grp.p) = key_size
    THEN {Ok(grp) : grp \in {h \in GenGroups : num_bits(h.p) = key_size}}
    ELSE {Err("GenerationError")}

\* Dsa::generate_key: a secret exponent x in (0, q) and y = g^x mod p.
Dsa_generate_key(dsa) ==
    {[p |-> dsa.p, q |-> dsa.q, g |-> dsa.g,
      pub_key |-> PowMod(dsa.g, x, dsa.p), priv_key |-> x] : x \in 1..(dsa.q - 1)}

\* PKeyRef::public_eq: the parameters and the public value.
public_eq(a, b) == a.p = b.p /\ a.q = b.q /\ a.g = b.g /\ a.pub_key = b.pub_key

(***************************************************************************)
(* Digests: utils::calculate_digest_and_algorithm.  A deterministic digest *)
(* of fixed length per algorithm; an algorithm it does not know is an      *)
(* error.                                                                  *)
(***************************************************************************)
RECURSIVE SumBytes(_)
SumBytes(bytes) == IF bytes = <<>> THEN 0 ELSE bytes[1] + SumBytes(Tail(bytes))

Algorithms == {"h8", "h16", "unknown"}

calculate_digest_and_algorithm(data, algorithm) ==
    CASE algorithm = "h8" -> Ok(<<(7 * SumBytes(data) + Len(data) + 1) % 256>>)
      [] algorithm = "h16" -> Ok(<<(3 * SumBytes(data) + 2 * Len(data) + 2) % 256, Len(data) % 256>>)
      [] OTHER -> Err("UnsupportedAlgorithm")

(***************************************************************************)
(* The signature encoding of the primitive library: DER,                   *)
(* SEQUENCE { INTEGER r, INTEGER s }.                                      *)
(***************************************************************************)
DerInt(v) ==
    LET body == IF v = 0 THEN <<0>> ELSE to_vec(v)
        padded == IF body[1] >= 128 THEN <<0>> \o body ELSE body
    IN <<2, Len(padded)>> \o padded

DerSig(r, s) ==
    LET body == DerInt(r) \o DerInt(s)
    IN <<48, Len(body)>> \o body

\* One INTEGER at position pos: its value, its sign, the position after it.
ParseDerInt(bytes, pos) ==
    IF pos + 1 > Len(bytes) \/ bytes[pos] # 2 THEN [ok |-> FALSE]
    ELSE LET n == bytes[pos + 1]
         IN IF n = 0 \/ n >= 128 \/ pos + 1 + n > Len(bytes) THEN [ok |-> FALSE]
            ELSE LET body == SubSeq(bytes, pos + 2, pos + 1 + n)
                 IN IF n > 1 /\ ((body[1] = 0 /\ body[2] < 128) \/ (body[1] = 255 /\ body[2] >= 128))
                    THEN [ok |-> FALSE]
                    ELSE [ok |-> TRUE, neg |-> body[1] >= 128,
                          val |-> from_slice(body), next |-> pos + 2 + n]

ParseDerSig(bytes) ==
    IF Len(bytes) < 2 \/ bytes[1] # 48 \/ bytes[2] >= 128 \/ bytes[2] # Len(bytes) - 2
    THEN [ok |-> FALSE]
    ELSE LET r == ParseDerInt(bytes, 3)
         IN IF ~r.ok THEN [ok |-> FALSE]
            ELSE LET s == ParseDerInt(bytes, r.next)
                 IN IF ~s.ok \/ s.next # Len(bytes) + 1 THEN [ok |-> FALSE]
                    ELSE [ok |-> TRUE, r |-> r.val, rneg |-> r.neg, s |-> s.val, sneg |-> s.neg]

(***************************************************************************)
(* The raw DSA primitives on a digest.                                     *)
(***************************************************************************)
\* The digest as an integer: its leading bytes, as many as q has.
DigestInt(dgst, q) ==
    LET n == (num_bits(q) + 7) \div 8
    IN from_slice(SubSeq(dgst, 1, IF Len(dgst) < n THEN Len(dgst) ELSE n))

SigR(dsa, k) == PowMod(dsa.g, k, dsa.p) % dsa.q

SigS(dsa, k, dgst) ==
    (InvMod(k, dsa.q) * (DigestInt(dgst, dsa.q) + dsa.priv_key * SigR(dsa, k))) % dsa.q

\* PkeyCtx::sign_to_vec: one signature per nonce k the primitive may draw; a
\* nonce that gives r = 0 or s = 0 is drawn again.
PkeyCtx_sign(dsa, dgst) ==
    LET nonces == {k \in 1..(dsa.q - 1) : SigR(dsa, k) # 0 /\ SigS(dsa, k, dgst) # 0}
    IN IF nonces = {} THEN {Err("OpenSSLError")}
       ELSE {Ok(DerSig(SigR(dsa, k), SigS(dsa, k, dgst))) : k \in nonces}

\* PkeyCtx::verify: Err on a signature that does not decode, Ok(FALSE) on one
\* that is out of range or fails the equation, Ok(TRUE) on a valid one.
PkeyCtx_verify(dsa, dgst, signature) ==
    LET sig == ParseDerSig(signature)
    IN IF ~sig.ok THEN Err("OpenSSLError")
       ELSE IF sig.rneg \/ sig.sneg \/ sig.r = 0 \/ sig.r >= dsa.q \/ sig.s = 0 \/ sig.s >= dsa.q
       THEN Ok(FALSE)
       ELSE LET w == InvMod(sig.s, dsa.q)
                u1 == (DigestInt(dgst, dsa.q) * w) % dsa.q
                u2 == (sig.r * w) % dsa.q
                v == ((PowMod(dsa.g, u1, dsa.p) * PowMod(dsa.pub_key, u2, dsa.p)) % dsa.p) % dsa.q
            IN Ok(v = sig.r)

(***************************************************************************)
(* The objects.  Each wraps the primitive library's handle and exposes     *)
(* nothing that writes to it.                                              *)
(***************************************************************************)
DsaPrivateKey(pkey) == [kind |-> "DsaPrivateKey", pkey |-> pkey]

DsaPublicKey(pkey) == [kind |-> "DsaPublicKey", pkey |-> pkey]

DsaParameters(dsa) == [kind |-> "DsaParameters", dsa |-> dsa]

\* The numeric bundles of the caller's side (types::DSA_*_NUMBERS).
DSA_PARAMETER_NUMBERS(p, q, g) == [p |-> p, q |-> q, g |-> g]

DSA_PUBLIC_NUMBERS(y, parameter_numbers) == [y |-> y, parameter_numbers |-> parameter_numbers]

DSA_PRIVATE_NUMBERS(x, public_numbers) == [x |-> x, public_numbers |-> public_numbers]

(***************************************************************************)
(* The module functions.                                                   *)
(***************************************************************************)
generate_parameters(key_size) ==
    {IF IsOk(r) THEN Ok(DsaParameters(r.val)) ELSE r : r \in Dsa_generate_params(key_size)}

from_private_numbers(numbers) ==
    LET public_numbers == numbers.public_numbers
        parameter_numbers == public_numbers.parameter_numbers
        p == py_int_to_bn(parameter_numbers.p)
        q == py_int_to_bn(parameter_numbers.q)
        g == py_int_to_bn(parameter_numbers.g)
        x == py_int_to_bn(numbers.x)
        y == py_int_to_bn(public_numbers.y)
    IN IF ~IsOk(p) THEN p
       ELSE IF ~IsOk(q) THEN q
       ELSE IF ~IsOk(g) THEN g
       ELSE IF ~IsOk(x) THEN x
       ELSE IF ~IsOk(y) THEN y
       ELSE LET dsa == Dsa_from_private_components(p.val, q.val, g.val, x.val, y.val)
            IN IF ~IsOk(dsa) THEN Panic ELSE Ok(DsaPrivateKey(dsa.val))

\* Mutant of from_public_numbers: the magnitude of y is converted, its sign dropped.
from_public_numbers_MagnitudeOfY(numbers) ==
    LET parameter_numbers == numbers.parameter_numbers
        p == py_int_to_bn(parameter_numbers.p)
        q == py_int_to_bn(parameter_numbers.q)
        g == py_int_to_bn(parameter_numbers.g)
        y == py_int_to_bn(IF numbers.y < 0 THEN -numbers.y ELSE numbers.y)
    IN IF ~IsOk(p) THEN p
       ELSE IF ~IsOk(q) THEN q
       ELSE IF ~IsOk(g) THEN g
       ELSE LET dsa == Dsa_from_public_components(p.val, q.val, g.val, y.val)
            IN IF ~IsOk(dsa) THEN Panic ELSE Ok(DsaPublicKey(dsa.val))

from_public_numbers(numbers) ==
    LET parameter_numbers == numbers.parameter_numbers
        p == py_int_to_bn(parameter_numbers.p)
        q == py_int_to_bn(parameter_numbers.q)
        g == py_int_to_bn(parameter_numbers.g)
        y == py_int_to_bn(numbers.y)
    IN IF ~IsOk(p) THEN p
       ELSE IF ~IsOk(q) THEN q
       ELSE IF ~IsOk(g) THEN g
       ELSE IF ~IsOk(y) THEN y
       ELSE LET dsa == Dsa_from_public_components(p.val, q.val, g.val, y.val)
            IN IF ~IsOk(dsa) THEN Panic ELSE Ok(DsaPublicKey(dsa.val))

from_parameter_numbers(numbers) ==
    LET p == py_int_to_bn(numbers.p)
        q == py_int_to_bn(numbers.q)
        g == py_int_to_bn(numbers.g)
    IN IF ~IsOk(p) THEN p
       ELSE IF ~IsOk(q) THEN q
       ELSE IF ~IsOk(g) THEN g
       ELSE LET dsa == Dsa_from_pqg(p.val, q.val, g.val)
            IN IF ~IsOk(dsa) THEN Panic ELSE Ok(DsaParameters(dsa.val))

clone_dsa_params(d) == Dsa_from_pqg(d.p, d.q, d.g)

(***************************************************************************)
(* DsaPrivateKey.                                                          *)
(***************************************************************************)
\* Mutant of sign: the data is signed as it is, without the digest.
sign_RawData(self, data, algorithm) ==
    LET digest == calculate_digest_and_algorithm(data, algorithm)
    IN IF ~IsOk(digest) THEN {digest} ELSE PkeyCtx_sign(self.pkey, data)

sign(self, data, algorithm) ==
    LET digest == calculate_digest_and_algorithm(data, algorithm)
    IN IF ~IsOk(digest) THEN {digest} ELSE PkeyCtx_sign(self.pkey, digest.val)

DsaPrivateKey_key_size(self) == num_bits(self.pkey.p)

\* Mutant of public_key: g is passed where the public value belongs.
public_key_PassesG(self) ==
    LET priv_dsa == self.pkey
        pub_dsa == Dsa_from_public_components(priv_dsa.p, priv_dsa.q, priv_dsa.g, priv_dsa.g)
    IN IF ~IsOk(pub_dsa) THEN Panic ELSE Ok(DsaPublicKey(pub_dsa.val))

public_key(self) ==
    LET priv_dsa == self.pkey
        pub_dsa == Dsa_from_public_components(priv_dsa.p, priv_dsa.q, priv_dsa.g, priv_dsa.pub_key)
    IN IF ~IsOk(pub_dsa) THEN Panic ELSE Ok(DsaPublicKey(pub_dsa.val))

DsaPrivateKey_parameters(self) ==
    LET dsa == clone_dsa_params(self.pkey)
    IN IF ~IsOk(dsa) THEN dsa ELSE Ok(DsaParameters(dsa.val))

\* Mutant of private_numbers: the private and the public value change places.
private_numbers_SwapsXY(self) ==
    LET dsa == self.pkey
        py_p == bn_to_py_int(dsa.p)
        py_q == bn_to_py_int(dsa.q)
        py_g == bn_to_py_int(dsa.g)
        py_pub_key == bn_to_py_int(dsa.pub_key)
        py_private_key == bn_to_py_int(dsa.priv_key)
        parameter_numbers == DSA_PARAMETER_NUMBERS(py_p, py_q, py_g)
        public_numbers == DSA_PUBLIC_NUMBERS(py_private_key, parameter_numbers)
    IN Ok(DSA_PRIVATE_NUMBERS(py_pub_key, public_numbers))

private_numbers(self) ==
    LET dsa == self.pkey
        py_p == bn_to_py_int(dsa.p)
        py_q == bn_to_py_int(dsa.q)
        py_g == bn_to_py_int(dsa.g)
        py_pub_key == bn_to_py_int(dsa.pub_key)
        py_private_key == bn_to_py_int(dsa.priv_key)
        parameter_numbers == DSA_PARAMETER_NUMBERS(py_p, py_q, py_g)
        public_numbers == DSA_PUBLIC_NUMBERS(py_pub_key, parameter_numbers)
    IN Ok(DSA_PRIVATE_NUMBERS(py_private_key, public_numbers))

(***************************************************************************)
(* DsaPublicKey.                                                           *)
(***************************************************************************)
\* Mutant of verify: an error of the primitive is returned as it is.
verify_PropagatesPrimitiveError(self, signature, data, algorithm) ==
    LET digest == calculate_digest_and_algorithm(data, algorithm)
    IN IF ~IsOk(digest) THEN digest
       ELSE LET outcome == PkeyCtx_verify(self.pkey, digest.val, signature)
            IN IF ~IsOk(outcome) THEN outcome
               ELSE IF ~outcome.val THEN Err("InvalidSignature") ELSE Ok("unit")

verify(self, signature, data, algorithm) ==
    LET digest == calculate_digest_and_algorithm(data, algorithm)
    IN IF ~IsOk(digest) THEN digest
       ELSE LET outcome == PkeyCtx_verify(self.pkey, digest.val, signature)
                valid == IF IsOk(outcome) THEN outcome.val ELSE FALSE
            IN IF ~valid THEN Err("InvalidSignature") ELSE Ok("unit")

DsaPublicKey_key_size(self) == num_bits(self.pkey.p)

DsaPublicKey_parameters(self) ==
    LET dsa == clone_dsa_params(self.pkey)
    IN IF ~IsOk(dsa) THEN dsa ELSE Ok(DsaParameters(dsa.val))

public_numbers(self) ==
    LET dsa == self.pkey
        py_p == bn_to_py_int(dsa.p)
        py_q == bn_to_py_int(dsa.q)
        py_g == bn_to_py_int(dsa.g)
        py_pub_key == bn_to_py_int(dsa.pub_key)
        parameter_numbers == DSA_PARAMETER_NUMBERS(py_p, py_q, py_g)
    IN Ok(DSA_PUBLIC_NUMBERS(py_pub_key, parameter_numbers))

\* Mutant of __eq__: the generator is left out of the comparison.
eq_IgnoresG(self, other) ==
    /\ self.pkey.p = other.pkey.p
    /\ self.pkey.q = other.pkey.q
    /\ self.pkey.pub_key = other.pkey.pub_key

__eq__(self, other) == public_eq(self.pkey, other.pkey)

\* Returns the reference it was given: a frozen object is its own copy.
__copy__(slf) == slf

(***************************************************************************)
(* DsaParameters.                                                          *)
(***************************************************************************)
generate_private_key(self) ==
    LET params == clone_dsa_params(self.dsa)
    IN IF ~IsOk(params) THEN {params}
       ELSE {Ok(DsaPrivateKey(dsa)) : dsa \in Dsa_generate_key(params.val)}

\* Mutant of parameter_numbers: q and g change places.
parameter_numbers_SwapsQG(self) ==
    LET py_p == bn_to_py_int(self.dsa.p)
        py_q == bn_to_py_int(self.dsa.q)
        py_g == bn_to_py_int(self.dsa.g)
    IN Ok(DSA_PARAMETER_NUMBERS(py_p, py_g, py_q))

parameter_numbers(self) ==
    LET py_p == bn_to_py_int(self.dsa.p)
        py_q == bn_to_py_int(self.dsa.q)
        py_g == bn_to_py_int(self.dsa.g)
    IN Ok(DSA_PARAMETER_NUMBERS(py_p, py_q, py_g))

(***************************************************************************)
(* What the caller supplies.                                               *)
(***************************************************************************)
Messages == {<<>>, <<116>>}

\* One byte of a signature XOR-ed with a mask: the low bit, the two low bits,
\* every bit.
FlipMasks == {1, 3, 255}

RECURSIVE Xor8(_, _)
Xor8(a, b) ==
    IF a = 0 /\ b = 0 THEN 0
    ELSE (((a % 2) + (b % 2)) % 2) + 2 * Xor8(a \div 2, b \div 2)

FlipByte(bytes, pos, mask) == [bytes EXCEPT ![pos] = Xor8(bytes[pos], mask)]

KeySizes == {2, 3, 9}

KnownKeys == UNION {Dsa_generate_key(grp) : grp \in GenGroups}

\* Values a caller may put in place of one component: a negative integer, and
\* one the primitive library rejects.
Faults == {-1, 0}

\* The bundles a caller supplies: those of the known groups and keys, and the
\* bundle of one key with one component replaced, or with a component the
\* primitive library rejects before a negative one.
FaultyParameterNumbers ==
    LET n == DSA_PARAMETER_NUMBERS(7, 3, 2)
    IN {[n EXCEPT !.p = v] : v \in Faults}
       \cup {[n EXCEPT !.q = v] : v \in Faults}
       \cup {[n EXCEPT !.g = v] : v \in Faults}
       \cup {DSA_PARAMETER_NUMBERS(0, 3, -1)}

FaultyPublicNumbers ==
    LET n == DSA_PUBLIC_NUMBERS(2, DSA_PARAMETER_NUMBERS(7, 3, 2))
    IN {[n EXCEPT !.y = v] : v \in Faults}
       \cup {[n EXCEPT !.parameter_numbers = m] : m \in FaultyParameterNumbers}
       \cup {DSA_PUBLIC_NUMBERS(-1, DSA_PARAMETER_NUMBERS(7, 0, 2))}

FaultyPrivateNumbers ==
    LET n == DSA_PRIVATE_NUMBERS(1, DSA_PUBLIC_NUMBERS(2, DSA_PARAMETER_NUMBERS(7, 3, 2)))
    IN {[n EXCEPT !.x = v] : v \in Faults}
       \cup {[n EXCEPT !.public_numbers = m] : m \in FaultyPublicNumbers}

ParameterInputs ==
    {DSA_PARAMETER_NUMBERS(grp.p, grp.q, grp.g) : grp \in GenGroups} \cup FaultyParameterNumbers

PublicInputs ==
    {DSA_PUBLIC_NUMBERS(k.pub_key, DSA_PARAMETER_NUMBERS(k.p, k.q, k.g)) : k \in KnownKeys}
    \cup {DSA_PUBLIC_NUMBERS(2, DSA_PARAMETER_NUMBERS(7, 3, 4))}
    \cup FaultyPublicNumbers

PrivateInputs ==
    {DSA_PRIVATE_NUMBERS(k.priv_key,
        DSA_PUBLIC_NUMBERS(k.pub_key, DSA_PARAMETER_NUMBERS(k.p, k.q, k.g))) : k \in KnownKeys}
    \cup FaultyPrivateNumbers

(***************************************************************************)
(* The state machine: one action per call.  heap is the sequence of        *)
(* objects constructed so far, origin[i] the private key that object i was *)
(* derived from by public_key() (0 for any other object), ret the last     *)
(* call: its name, the object it was made on, its input and its result.    *)
(***************************************************************************)
Objs(kind) == {i \in 1..Len(heap) : heap[i].kind = kind}

Room == Len(heap) < MaxObjs

Call(op, self, arg, res) == [op |-> op, self |-> self, arg |-> arg, res |-> res]

\* A call that constructs an object returns it as a new object of the heap.
Construct(op, self, arg, res, from) ==
    IF IsOk(res)
    THEN /\ heap' = Append(heap, res.val)
         /\ origin' = Append(origin, from)
         /\ ret' = Call(op, self, arg, Ok(Len(heap) + 1))
    ELSE /\ ret' = Call(op, self, arg, res)
         /\ UNCHANGED <<heap, origin>>

\* A call that returns a value constructs nothing.
Return(op, self, arg, res) ==
    /\ ret' = Call(op, self, arg, res)
    /\ UNCHANGED <<heap, origin>>

\* The numbers a constructor is given: one of the caller's own, or the bundle
\* the last call exported (src is then the object it came from).
NumbersFrom(op, inputs) ==
    {[numbers |-> n, src |-> 0] : n \in inputs}
    \cup (IF ret.op = op /\ IsOk(ret.res) THEN {[numbers |-> ret.res.val, src |-> ret.self]} ELSE {})

Init ==
    /\ heap = <<>>
    /\ origin = <<>>
    /\ ret = Call("none", 0, 0, Ok(0))

GenerateParameters ==
    /\ Room
    /\ \E key_size \in KeySizes : \E res \in generate_parameters(key_size) :
          Construct("generate_parameters", 0, key_size, res, 0)

FromPrivateNumbers ==
    /\ Room
    /\ \E arg \in NumbersFrom("private_numbers", PrivateInputs) :
          Construct("from_private_numbers", 0, arg, from_private_numbers(arg.numbers), 0)

FromPublicNumbers ==
    /\ Room
    /\ \E arg \in NumbersFrom("public_numbers", PublicInputs) :
          Construct("from_public_numbers", 0, arg, from_public_numbers(arg.numbers), 0)

FromParameterNumbers ==
    /\ Room
    /\ \E arg \in NumbersFrom("parameter_numbers", ParameterInputs) :
          Construct("from_parameter_numbers", 0, arg, from_parameter_numbers(arg.numbers), 0)

Sign ==
    \E i \in Objs("DsaPrivateKey"), data \in Messages, algorithm \in Algorithms :
       \E res \in sign(heap[i], data, algorithm) :
          Return("sign", i, [data |-> data, algorithm |-> algorithm], res)

PrivateKeySize ==
    \E i \in Objs("DsaPrivateKey") : Return("key_size", i, 0, Ok(DsaPrivateKey_key_size(heap[i])))

PublicKey ==
    /\ Room
    /\ \E i \in Objs("DsaPrivateKey") : Construct("public_key", i, 0, public_key(heap[i]), i)

PrivateKeyParameters ==
    /\ Room
    /\ \E i \in Objs("DsaPrivateKey") : Construct("parameters", i, 0, DsaPrivateKey_parameters(heap[i]), 0)

PrivateNumbers ==
    \E i \in Objs("DsaPrivateKey") : Return("private_numbers", i, 0, private_numbers(heap[i]))

\* The caller verifies the signature the last sign() returned: as it is, against
\* any message and algorithm, or with one byte flipped, against the message and
\* algorithm it was made for.  arg.prim is what the primitive reported.
Verify ==
    /\ ret.op = "sign"
    /\ IsOk(ret.res)
    /\ \E j \in Objs("DsaPublicKey"), data \in Messages, algorithm \in Algorithms :
       \E pos \in 0..Len(ret.res.val), mask \in FlipMasks :
          LET same == data = ret.arg.data /\ algorithm = ret.arg.algorithm
              signature == IF pos = 0 THEN ret.res.val ELSE FlipByte(ret.res.val, pos, mask)
              digest == calculate_digest_and_algorithm(data, algorithm)
              prim == IF IsOk(digest) THEN PkeyCtx_verify(heap[j].pkey, digest.val, signature)
                      ELSE Err("none")
          IN /\ pos # 0 => same
             /\ Return("verify", j,
                       [signer |-> ret.self, same |-> same, flipped |-> pos # 0, prim |-> prim],
                       verify(heap[j], signature, data, algorithm))

PublicKeySize ==
    \E j \in Objs("DsaPublicKey") : Return("key_size", j, 0, Ok(DsaPublicKey_key_size(heap[j])))

PublicKeyParameters ==
    /\ Room
    /\ \E j \in Objs("DsaPublicKey") : Construct("parameters", j, 0, DsaPublicKey_parameters(heap[j]), 0)

PublicNumbers ==
    \E j \in Objs("DsaPublicKey") : Return("public_numbers", j, 0, public_numbers(heap[j]))

Eq ==
    \E j \in Objs("DsaPublicKey"), other \in Objs("DsaPublicKey") :
       Return("__eq__", j, other, Ok(__eq__(heap[j], heap[other])))

\* __copy__ hands back the object it was called on: no object is added.
Copy ==
    \E j \in Objs("DsaPublicKey") : Return("__copy__", j, 0, Ok(__copy__(j)))

\* Mutant of GeneratePrivateKey: the key is generated in the parameters object
\* itself, not in a clone of it.
GeneratePrivateKey_InPlace ==
    \E i \in Objs("DsaParameters") : \E res \in generate_private_key(heap[i]) :
       /\ IsOk(res)
       /\ heap' = [heap EXCEPT ![i] = res.val]
       /\ ret' = Call("generate_private_key", i, 0, Ok(i))
       /\ UNCHANGED origin

GeneratePrivateKey ==
    /\ Room
    /\ \E i \in Objs("DsaParameters") : \E res \in generate_private_key(heap[i]) :
          Construct("generate_private_key", i, 0, res, 0)

ParameterNumbers ==
    \E i \in Objs("DsaParameters") : Return("parameter_numbers", i, 0, parameter_numbers(heap[i]))

Next ==
    \/ GenerateParameters
    \/ FromPrivateNumbers
    \/ FromPublicNumbers
    \/ FromParameterNumbers
    \/ Sign
    \/ PrivateKeySize
    \/ PublicKey
    \/ PrivateKeyParameters
    \/ PrivateNumbers
    \/ Verify
    \/ PublicKeySize
    \/ PublicKeyParameters
    \/ PublicNumbers
    \/ Eq
    \/ Copy
    \/ GeneratePrivateKey
    \/ ParameterNumbers

Spec == Init /\ [][Next]_vars

(***************************************************************************)
(* Properties.                                                             *)
(***************************************************************************)
Constructors == {"from_parameter_numbers", "from_public_numbers", "from_private_numbers"}

\* The (p, q, g) an object carries.
PQG(obj) ==
    IF obj.kind = "DsaParameters" THEN <<obj.dsa.p, obj.dsa.q, obj.dsa.g>>
    ELSE <<obj.pkey.p, obj.pkey.q, obj.pkey.g>>

\* The integers of a numeric bundle, whichever of the three it is.
Components(op, n) ==
    CASE op = "from_parameter_numbers" -> {n.p, n.q, n.g}
      [] op = "from_public_numbers" ->
            {n.parameter_numbers.p, n.parameter_numbers.q, n.parameter_numbers.g, n.y}
      [] op = "from_private_numbers" ->
            {n.public_numbers.parameter_numbers.p, n.public_numbers.parameter_numbers.q,
             n.public_numbers.parameter_numbers.g, n.public_numbers.y, n.x}

\* C1: a signature returned by k.sign(m, alg), verified as it is against the same
\* m and alg by an object k.public_key() returned, is accepted.
C1_SignThenVerifySucceeds ==
    (/\ ret.op = "verify"
     /\ ~ret.arg.flipped
     /\ ret.arg.same
     /\ origin[ret.self] = ret.arg.signer)
    => ret.res = Ok("unit")

C1_Witness ==
    /\ ret.op = "verify"
    /\ ~ret.arg.flipped
    /\ ret.arg.same
    /\ origin[ret.self] = ret.arg.signer
    /\ ret.res = Ok("unit")

C4_RejectionIsTypedError ==
    (/\ ret.op = "from_parameter_numbers"
     /\ \A v \in Components(ret.op, ret.arg.numbers) : v >= 0
     /\ ~ValidPQG(ret.arg.numbers.p, ret.arg.numbers.q, ret.arg.numbers.g))
    => ret.res = Err("InvalidParameters")

\* C5: a constructor given a bundle with a negative component returns
\* InvalidNumeric or InvalidParameters and constructs no object.
C5_NegativeComponentFails ==
    [][(/\ ret'.op \in Constructors
        /\ \E v \in Components(ret'.op, ret'.arg.numbers) : v < 0)
       => /\ ret'.res \in {Err("InvalidNumeric"), Err("InvalidParameters")}
          /\ heap' = heap]_vars

C5_Witness ==
    /\ ret.op = "from_private_numbers"
    /\ ret.arg.numbers.x < 0
    /\ ret.res = Err("InvalidNumeric")

\* C6: parameter_numbers() of the object from_parameter_numbers(p, q, g)
\* returned is (p, q, g); and a triple that parameter_numbers() exported is
\* accepted again.
C6_ParameterNumbersRoundTrip ==
    (ret.op = "from_parameter_numbers")
    => /\ IsOk(ret.res) => parameter_numbers(heap[ret.res.val]) = Ok(ret.arg.numbers)
       /\ ret.arg.src # 0 => IsOk(ret.res)

C6_Witness ==
    /\ ret.op = "from_parameter_numbers"
    /\ IsOk(ret.res)
    /\ ret.arg.src # 0
    /\ ret.res.val # ret.arg.src

\* C7: from_private_numbers(k.private_numbers()) returns a key k2 with the
\* (p, q, g, y, x) of k, whose public_key() equals that of k, and every
\* signature of either is accepted by the public key of the other.
C7_PrivateNumbersRoundTrip ==
    (ret.op = "from_private_numbers" /\ ret.arg.src # 0)
    => /\ IsOk(ret.res)
       /\ LET k == heap[ret.arg.src]
              k2 == heap[ret.res.val]
              Accepts(signer, verifier) ==
                  \A data \in Messages, algorithm \in Algorithms :
                     \A sig \in sign(signer, data, algorithm) :
                        IsOk(sig) => verify(public_key(verifier).val, sig.val, data, algorithm) = Ok("unit")
          IN /\ private_numbers(k2) = private_numbers(k)
             /\ k2.pkey = k.pkey
             /\ IsOk(public_key(k2))
             /\ __eq__(public_key(k2).val, public_key(k).val)
             /\ Accepts(k, k2)
             /\ Accepts(k2, k)

C7_Witness ==
    /\ ret.op = "from_private_numbers"
    /\ ret.arg.src # 0
    /\ IsOk(ret.res)
    /\ ret.res.val # ret.arg.src

\* C8: the objects public_key() returned for one private key are equal to each
\* other and carry that key's p, q, g and y.
C8_PublicKeyIsPureDerivation ==
    \A j \in Objs("DsaPublicKey") :
       origin[j] # 0
       => /\ heap[j].pkey.p = heap[origin[j]].pkey.p
          /\ heap[j].pkey.q = heap[origin[j]].pkey.q
          /\ heap[j].pkey.g = heap[origin[j]].pkey.g
          /\ heap[j].pkey.pub_key = heap[origin[j]].pkey.pub_key
          /\ \A other \in Objs("DsaPublicKey") :
                origin[other] = origin[j] => __eq__(heap[j], heap[other])

C8_Witness ==
    \E j \in Objs("DsaPublicKey"), other \in Objs("DsaPublicKey") :
       /\ j # other
       /\ origin[j] # 0
       /\ origin[other] = origin[j]
       /\ ret.op = "__eq__"
       /\ ret.self = j
       /\ ret.arg = other
       /\ ret.res = Ok(TRUE)

\* C9: a.__eq__(b) is true exactly when a and b have the same p, q, g and y,
\* whichever objects they are and however each was constructed.
C9_EqualityIsStructural ==
    (ret.op = "__eq__")
    => LET a == heap[ret.self].pkey
           b == heap[ret.arg].pkey
       IN ret.res = Ok(a.p = b.p /\ a.q = b.q /\ a.g = b.g /\ a.pub_key = b.pub_key)

C9_Witness ==
    /\ ret.op = "__eq__"
    /\ ret.self # ret.arg
    /\ origin[ret.self] # 0
    /\ origin[ret.arg] = 0
    /\ ret.res = Ok(TRUE)

\* C10: no call changes an object that exists; parameters() and
\* generate_private_key() return a new object with the (p, q, g) of the object
\* they were called on.
C10_ObjectsAreImmutable ==
    [][/\ Len(heap') >= Len(heap)
       /\ \A i \in 1..Len(heap) : heap'[i] = heap[i]
       /\ (ret'.op \in {"parameters", "generate_private_key"} /\ IsOk(ret'.res))
          => /\ Len(heap') = Len(heap) + 1
             /\ ret'.res.val = Len(heap')
             /\ PQG(heap'[ret'.res.val]) = PQG(heap[ret'.self])]_vars

C10_Witness ==
    /\ ret.op = "generate_private_key"
    /\ IsOk(ret.res)
    /\ \E i \in Objs("DsaPrivateKey") :
          /\ i # ret.res.val
          /\ heap[i] # heap[ret.res.val]
          /\ PQG(heap[i]) = PQG(heap[ret.self])
          /\ PQG(heap[ret.res.val]) = PQG(heap[ret.self])

====
